---- MODULE Spec2Model ----
(***************************************************************************)
(* Model of backup-manager: Sync.clear_deleted (src/src/backup_sync.py),   *)
(* the retry_on_failure decorator that wraps _remove_directory and         *)
(* _remove_file, and the top-down directory walk (pathlib.Path.walk) the   *)
(* reconciliation is driven by.                                            *)
(*                                                                         *)
(* A path is the sequence of its components relative to its root; the      *)
(* backup tree and the source tree are sets of such paths (<<>> is the     *)
(* root directory itself, the empty set a root that does not exist).       *)
(***************************************************************************)
EXTENDS Naturals, Sequences, FiniteSets

\* ----------------------------------------------------------------------
\* Bounds of the model
\* ----------------------------------------------------------------------
\* deepest level of the nested directory chain a, a/a, ...
MaxDepth == 2
\* number of clear_deleted invocations in one behaviour
MaxRuns == 2
\* number of removals by another process during one behaviour
MaxExternal == 1

\* ----------------------------------------------------------------------
\* Program constants
\* ----------------------------------------------------------------------
\* retry_on_failure(max_retries=1, ...)
max_retries == 1

\* ----------------------------------------------------------------------
\* Paths and trees
\* ----------------------------------------------------------------------
\* name of the nested directories, of their sibling, of the file candidate
DirA == "a"
DirB == "b"
FileF == "f"

ROOT == << >>

Chain(k) == [i \in 1..k |-> DirA]

\* the directories that may occur in a tree: the root, the chain a, a/a, ...
\* and b beside a
ChainPaths == {Chain(k) : k \in 0..MaxDepth}

DirPaths == ChainPaths \cup {<<DirB>>}

\* the root and every directory of the chain may hold one file
FilePaths == {Append(d, FileF) : d \in ChainPaths}

Universe == DirPaths \cup FilePaths

Parent(p) == SubSeq(p, 1, Len(p) - 1)

Name(p) == p[Len(p)]

\* p is q or an ancestor of q
IsPrefix(p, q) == Len(p) <= Len(q) /\ SubSeq(q, 1, Len(p)) = p

\* a set of relative paths is a tree when every member's parent is a member
IsTree(t) == \A p \in t : p # ROOT => Parent(p) \in t

Trees == {t \in SUBSET Universe : IsTree(t)}

\* all orderings of a finite set, as sequences (scandir order is arbitrary)
RECURSIVE Perms(_)
Perms(S) ==
    IF S = {} THEN {<< >>}
    ELSE UNION {{<<x>> \o s : s \in Perms(S \ {x})} : x \in S}

RECURSIVE Reverse(_)
Reverse(s) == IF s = << >> THEN << >> ELSE Append(Reverse(Tail(s)), Head(s))

\* ----------------------------------------------------------------------
\* State
\* ----------------------------------------------------------------------
VARIABLES
    fs,        \* the filesystem: the set of absolute paths that exist
    pc,        \* position of the caller: "idle" | "walk" | "body" | "files" | "retry" | "aborted"
    dry,       \* argument of the running clear_deleted call
    stack,     \* Path.walk: the list `paths` of directories still to scan (top is last)
    root,      \* clear_deleted: the directory yielded by the walk
    files,     \* clear_deleted: the file names of root not yet looked at
    op,        \* retry_on_failure.wrapper: the wrapped call and its loop variable
    log,       \* events passed to logging.info / warning / error by the running call
    calls,     \* invocations of shutil.rmtree / os.remove by the running call
    ops,       \* wrapper activations of the running call that have returned
    visited,   \* directories the running call has classified
    start,     \* the filesystem when the running call started
    runs,      \* number of clear_deleted calls so far
    prev,      \* summary of the last finished clear_deleted call
    ext,       \* number of removals by another process so far
    vanished,  \* paths another process removed between listing and classification
    sync       \* sync_level: its arguments, count, and the dirs of the yielded directory

vars == <<fs, pc, dry, stack, root, files, op, log, calls, ops, visited,
          start, runs, prev, ext, vanished, sync>>

\* Sync.__init__: the two roots
SourceDir == <<"source">>
BackupDir == <<"backup">>

\* pathlib: base / rel and path.relative_to(base)
Join(base, rel) == base \o rel

RelativeTo(p, base) == SubSeq(p, Len(base) + 1, Len(p))

IsUnder(p, base) == IsPrefix(base, p)

\* Path.exists
Exists(p) == p \in fs

\* os.DirEntry.is_dir, by the name of the entry
IsFileName(n) == n = FileF

Children(p) == {q \in fs : Len(q) = Len(p) + 1 /\ IsPrefix(p, q)}

DirNamesOf(p) == {Name(q) : q \in {c \in Children(p) : ~IsFileName(Name(c))}}

FileNamesOf(p) == {Name(q) : q \in {c \in Children(p) : IsFileName(Name(c))}}

\* everything that exists at or below p
Below(p) == {q \in fs : IsPrefix(p, q)}

NoOp == [func |-> "none", path |-> << >>, attempt |-> 0, callFrom |-> 1, decision |-> 0]

NoRun == [dry |-> TRUE, exhausted |-> FALSE, failures |-> FALSE, ext |-> 0, decisions |-> {}]

\* sync_level(depth=0, max_depth=0, dry_run=True), not running
NoSync == [max_depth |-> 0, dry_run |-> TRUE, count |-> 0, dirs |-> << >>]

Init ==
    /\ \E ts \in Trees, tb \in Trees :
          fs = {Join(SourceDir, p) : p \in ts} \cup {Join(BackupDir, p) : p \in tb}
    /\ pc = "idle"
    /\ dry = TRUE
    /\ stack = << >>
    /\ root = BackupDir
    /\ files = << >>
    /\ op = NoOp
    /\ log = << >>
    /\ calls = << >>
    /\ ops = << >>
    /\ visited = << >>
    /\ start = fs
    /\ runs = 0
    /\ prev = NoRun
    /\ ext = 0
    /\ vanished = {}
    /\ sync = NoSync

\* ----------------------------------------------------------------------
\* Log events and observations
\* ----------------------------------------------------------------------
Event(level, what, p) == [level |-> level, what |-> what, path |-> p]

\* shutil.rmtree for _remove_directory, os.remove for _remove_file
Call(f, p, ok) == [func |-> f, path |-> p, ok |-> ok, present |-> p \in fs]

\* lines 43-51: _remove_directory and _remove_file end without a return
\* statement, so wrapper's `return func(*args, **kwargs)` returns None
ReturnedOnSuccess == "None"

\* line 33: `return None`
ReturnedOnExhaustion == "None"

\* a wrapper activation that has returned, with the calls and log events it
\* made and the value it returned
Resolved(result, nCalls, nLog) ==
    [func |-> op.func, path |-> op.path, result |-> result,
     returned |-> IF result = "ok" THEN ReturnedOnSuccess ELSE ReturnedOnExhaustion,
     callFrom |-> op.callFrom, callTo |-> nCalls,
     decision |-> op.decision, logTo |-> nLog]

\* ----------------------------------------------------------------------
\* Sync.clear_deleted
\* ----------------------------------------------------------------------
\* as WalkRoot with the walk started from the source
WalkRootSource == SourceDir

\* line 58: self.backup.walk()
WalkRoot == BackupDir

\* the call itself: Path.walk starts with paths = [self]
ClearDeleted(d) ==
    /\ pc = "idle"
    /\ runs < MaxRuns
    /\ runs' = runs + 1
    /\ dry' = d
    /\ pc' = "walk"
    /\ stack' = <<WalkRoot>>
    /\ root' = BackupDir
    /\ files' = << >>
    /\ op' = NoOp
    /\ log' = << >>
    /\ calls' = << >>
    /\ ops' = << >>
    /\ visited' = << >>
    /\ start' = fs
    /\ vanished' = {}
    /\ UNCHANGED <<fs, prev, ext, sync>>

IsExhausted(o) == o.result = "skipped"

Summary ==
    [dry |-> dry,
     exhausted |-> \E i \in 1..Len(ops) : IsExhausted(ops[i]),
     failures |-> \E i \in 1..Len(calls) : ~calls[i].ok,
     ext |-> ext,
     decisions |-> IF dry THEN {log[i].path : i \in 1..Len(log)} ELSE {}]

\* the traversal is over: `while paths` of Path.walk has nothing left
AtEnd == pc = "walk" /\ stack = << >>

\* the for loop ends and clear_deleted returns; its locals are gone
WalkEnd ==
    /\ AtEnd
    /\ pc' = "idle"
    /\ prev' = Summary
    /\ root' = BackupDir
    /\ files' = << >>
    /\ op' = NoOp
    /\ log' = << >>
    /\ calls' = << >>
    /\ ops' = << >>
    /\ visited' = << >>
    /\ start' = fs
    /\ vanished' = {}
    /\ UNCHANGED <<fs, dry, stack, runs, ext, sync>>

Pop(s) == SubSeq(s, 1, Len(s) - 1)

Top(s) == s[Len(s)]

\* Path.walk: path = paths.pop(); scandir fails, the error is dropped
WalkSkip ==
    /\ pc = "walk"
    /\ stack # << >>
    /\ ~Exists(Top(stack))
    /\ stack' = Pop(stack)
    /\ UNCHANGED <<fs, pc, dry, root, files, op, log, calls, ops, visited,
                   start, runs, prev, ext, vanished, sync>>

\* the children pushed once the generator is resumed: reversed(dirnames)
Pushed(path, dirnames) ==
    [i \in 1..Len(dirnames) |-> Append(path, Reverse(dirnames)[i])]

\* Path.walk: path = paths.pop(); scandir; yield path, dirnames, filenames
WalkYield ==
    /\ pc = "walk"
    /\ stack # << >>
    /\ Exists(Top(stack))
    /\ \E dirnames \in Perms(DirNamesOf(Top(stack))),
          filenames \in Perms(FileNamesOf(Top(stack))) :
          /\ root' = Top(stack)
          /\ files' = filenames
          /\ stack' = Pop(stack) \o Pushed(Top(stack), dirnames)
    /\ pc' = "body"
    /\ UNCHANGED <<fs, dry, op, log, calls, ops, visited, start, runs, prev, ext,
                   vanished, sync>>

\* retry_on_failure.wrapper is entered: for attempt in range(max_retries + 1)
\* as Enter with the attempt count of the activation before
EnterStale(f, p) ==
    [func |-> f, path |-> p, attempt |-> op.attempt,
     callFrom |-> Len(calls) + 1, decision |-> Len(log) + 1]

\* (decision: the place in the log of the 'Deleting' entry that precedes the call)
Enter(f, p) ==
    [func |-> f, path |-> p, attempt |-> 0,
     callFrom |-> Len(calls) + 1, decision |-> Len(log) + 1]

\* as SrcEquivDir with rel_path dropped from the join
SrcEquivDirNoRel(rt) == SourceDir

\* lines 61-62: rel_path = root.relative_to(self.backup); self.source / rel_path
SrcEquivDir(rt) == Join(SourceDir, RelativeTo(rt, BackupDir))

\* as SrcEquivFile with rel_path dropped from the join
SrcEquivFileNoRel(rt, file) == Append(SourceDir, file)

\* line 69: self.source / rel_path / file
SrcEquivFile(rt, file) == Append(Join(SourceDir, RelativeTo(rt, BackupDir)), file)

\* as Destructive with the test of dry lost
DestructiveAlways(d) == TRUE

\* lines 65 and 72: `if not dry`
Destructive(d) == ~d

\* as DirToRemove with src_equiv handed to the removal
DirToRemoveSrcEquiv(rt) == SrcEquivDir(rt)

\* line 66: self._remove_directory(root)
DirToRemove(rt) == rt

\* lines 59-66 of clear_deleted: the directory yielded by the walk
Classify ==
    /\ pc = "body"
    /\ IF ~Exists(root)
       THEN /\ pc' = "walk"
            /\ UNCHANGED <<op, log, visited>>
       ELSE /\ visited' = Append(visited, root)
            /\ IF ~Exists(SrcEquivDir(root))
               THEN /\ log' = Append(log, Event("info", "Deleting dir tree", root))
                    /\ IF Destructive(dry)
                       THEN /\ pc' = "retry"
                            /\ op' = Enter("_remove_directory", DirToRemove(root))
                       ELSE /\ pc' = "walk"
                            /\ op' = op
               ELSE /\ pc' = "files"
                    /\ UNCHANGED <<op, log>>
    /\ UNCHANGED <<fs, dry, stack, root, files, calls, ops, start, runs, prev, ext,
                   vanished, sync>>

\* lines 68-73 of clear_deleted: one turn of `for file in files`
FileStep ==
    /\ pc = "files"
    /\ IF files = << >>
       THEN /\ pc' = "walk"
            /\ UNCHANGED <<files, op, log>>
       ELSE /\ files' = Tail(files)
            /\ IF ~Exists(SrcEquivFile(root, Head(files)))
               THEN /\ log' = Append(log, Event("info", "Deleting file", Append(root, Head(files))))
                    /\ IF Destructive(dry)
                       THEN /\ pc' = "retry"
                            /\ op' = Enter("_remove_file", Append(root, Head(files)))
                       ELSE UNCHANGED <<pc, op>>
               ELSE UNCHANGED <<pc, op, log>>
    /\ UNCHANGED <<fs, dry, stack, root, calls, ops, visited, start, runs, prev, ext,
                   vanished, sync>>

\* ----------------------------------------------------------------------
\* retry_on_failure.wrapper around _remove_directory and _remove_file
\* ----------------------------------------------------------------------
\* shutil.rmtree(path) / os.remove(path) can succeed
CanRemove(f, p) ==
    /\ Exists(p)
    /\ IF f = "_remove_directory" THEN ~IsFileName(Name(p)) ELSE IsFileName(Name(p))

\* as Removed with the path itself left in place
RemovedContents(f, p) == Below(p) \ {p}

\* what a successful shutil.rmtree(path) / os.remove(path) removes
Removed(f, p) == IF f = "_remove_directory" THEN Below(p) ELSE {p}

\* what shutil.rmtree may have removed when it raises: part of the content of
\* the directory, never the directory itself; a failed os.remove removes nothing
Partial(f, p) ==
    IF f = "_remove_directory"
    THEN {S \in SUBSET (Below(p) \ {p}) : \A q \in S : Below(q) \subseteq S}
    ELSE {{}}

\* as ReturnPc with the file loop entered after _remove_directory as well
ReturnPcFiles(f) == "files"

\* where the caller goes on after the wrapper returns: time.sleep and the next
\* directory after _remove_directory, the next file after _remove_file
ReturnPc(f) == IF f = "_remove_directory" THEN "walk" ELSE "files"

\* as AfterExhaustion with the removal tried again instead of given up
AfterExhaustionRetry(f) == "retry"

\* as AfterExhaustion with the exception raised again
AfterExhaustionRaise(f) == "aborted"

\* line 33: `return None` after the last attempt failed
AfterExhaustion(f) == ReturnPc(f)

\* line 22: `for attempt in range(max_retries + 1)`
InRange(attempt) == attempt < max_retries + 1

\* as RetryAgain with the comparison off by one
RetryAgainAlways(attempt) == attempt <= max_retries

\* line 27: `if attempt < max_retries`: warn and sleep, else log the error
RetryAgain(attempt) == attempt < max_retries

\* line 24: func(*args) returns
AttemptOk ==
    /\ pc = "retry"
    /\ CanRemove(op.func, op.path)
    /\ fs' = fs \ Removed(op.func, op.path)
    /\ calls' = Append(calls, Call(op.func, op.path, TRUE))
    /\ ops' = Append(ops, Resolved("ok", Len(calls) + 1, Len(log)))
    /\ pc' = ReturnPc(op.func)
    /\ UNCHANGED <<dry, stack, root, files, op, log, visited, start, runs, prev, ext,
                   vanished, sync>>

\* lines 25-33: func(*args) raises
AttemptFail ==
    /\ pc = "retry"
    /\ \E S \in Partial(op.func, op.path) : fs' = fs \ S
    /\ calls' = Append(calls, Call(op.func, op.path, FALSE))
    /\ IF RetryAgain(op.attempt)
       THEN /\ log' = Append(log, Event("warning", op.func, op.path))
            /\ IF InRange(op.attempt + 1)
               THEN /\ op' = [op EXCEPT !.attempt = @ + 1]
                    /\ UNCHANGED <<pc, ops>>
               ELSE /\ ops' = Append(ops, Resolved("skipped", Len(calls) + 1, Len(log) + 1))
                    /\ pc' = ReturnPc(op.func)
                    /\ op' = op
       ELSE /\ log' = Append(log, Event("error", op.func, op.path))
            /\ ops' = Append(ops, Resolved("skipped", Len(calls) + 1, Len(log) + 1))
            /\ pc' = AfterExhaustion(op.func)
            /\ op' = op
    /\ UNCHANGED <<dry, stack, root, files, visited, start, runs, prev, ext, vanished, sync>>

\* ----------------------------------------------------------------------
\* Another process removes a path of the backup while clear_deleted runs
\* ----------------------------------------------------------------------
Range(s) == {s[i] : i \in 1..Len(s)}

\* listed by the walk and not yet classified
Pending ==
    Range(stack)
    \cup (IF pc = "body" THEN {root} ELSE {})
    \cup (IF pc \in {"body", "files"} THEN {Append(root, f) : f \in Range(files)} ELSE {})

ExternalRemove(p) ==
    /\ pc \in {"walk", "body", "files", "retry"}
    /\ ext < MaxExternal
    /\ Exists(p)
    /\ IsUnder(p, BackupDir)
    /\ fs' = fs \ Below(p)
    /\ ext' = ext + 1
    /\ vanished' = vanished \cup (Pending \cap Below(p))
    /\ UNCHANGED <<pc, dry, stack, root, files, op, log, calls, ops, visited,
                   start, runs, prev, sync>>

\* ----------------------------------------------------------------------
\* Specifications
\* ----------------------------------------------------------------------
Next ==
    \/ \E d \in BOOLEAN : ClearDeleted(d)
    \/ WalkEnd
    \/ WalkSkip
    \/ WalkYield
    \/ Classify
    \/ FileStep
    \/ AttemptOk
    \/ AttemptFail

\* clear_deleted alone on the two trees
Spec == Init /\ [][Next]_vars

NextReal ==
    \/ ClearDeleted(FALSE)
    \/ WalkEnd
    \/ WalkSkip
    \/ WalkYield
    \/ Classify
    \/ FileStep
    \/ AttemptOk
    \/ AttemptFail

\* clear_deleted(dry=False) alone, call after call: the runs that remove, and
\* the only ones that enter the retry wrapper
SpecReal == Init /\ [][NextReal]_vars

NextExt ==
    \/ Next
    \/ \E p \in {Join(BackupDir, q) : q \in Universe} : ExternalRemove(p)

\* clear_deleted with another process removing paths of the backup
SpecExt == Init /\ [][NextExt]_vars

\* ----------------------------------------------------------------------
\* sync_level and safe_copy (the module-level names `source` and `backup` it
\* reads are the two roots)
\* ----------------------------------------------------------------------
\* the call itself: os.walk(source, topdown=True) starts with stack = [top];
\* a call only adds to the backup tree, so calls may follow one another freely
SyncLevel(md, dr) ==
    /\ pc = "idle"
    /\ sync' = [max_depth |-> md, dry_run |-> dr, count |-> 0, dirs |-> << >>]
    /\ pc' = "sync_walk"
    /\ stack' = <<SourceDir>>
    /\ root' = SourceDir
    /\ files' = << >>
    /\ log' = << >>
    /\ calls' = << >>
    /\ visited' = << >>
    /\ start' = fs
    /\ UNCHANGED <<fs, dry, op, ops, runs, prev, ext, vanished>>

SyncAtEnd == pc = "sync_walk" /\ stack = << >>

\* the for loop ends and sync_level returns; its locals are gone
SyncEnd ==
    /\ SyncAtEnd
    /\ pc' = "idle"
    /\ sync' = NoSync
    /\ root' = BackupDir
    /\ files' = << >>
    /\ log' = << >>
    /\ calls' = << >>
    /\ visited' = << >>
    /\ start' = fs
    /\ UNCHANGED <<fs, dry, stack, op, ops, runs, prev, ext, vanished>>

\* os.walk: top = stack.pop(); scandir fails, the error is dropped
SyncWalkSkip ==
    /\ pc = "sync_walk"
    /\ stack # << >>
    /\ ~Exists(Top(stack))
    /\ stack' = Pop(stack)
    /\ UNCHANGED <<fs, pc, dry, root, files, op, log, calls, ops, visited,
                   start, runs, prev, ext, vanished, sync>>

\* os.walk: top = stack.pop(); scandir; yield top, dirs, files
SyncWalkYield ==
    /\ pc = "sync_walk"
    /\ stack # << >>
    /\ Exists(Top(stack))
    /\ \E dirnames \in Perms(DirNamesOf(Top(stack))),
          filenames \in Perms(FileNamesOf(Top(stack))) :
          /\ root' = Top(stack)
          /\ files' = filenames
          /\ sync' = [sync EXCEPT !.dirs = dirnames]
    /\ stack' = Pop(stack)
    /\ pc' = "sync_body"
    /\ UNCHANGED <<fs, dry, op, log, calls, ops, visited, start, runs, prev, ext,
                   vanished>>

\* lines 93-94: depth_now = len(root.relative_to(source).parts)
DepthNow(rt) == Len(RelativeTo(rt, SourceDir))

\* line 96: `if depth_now > max_depth and max_depth > 0`
TooDeep(rt, md) == DepthNow(rt) > md /\ md > 0

\* line 100: dest_root = backup / rel_path
DestRoot(rt) == Join(BackupDir, RelativeTo(rt, SourceDir))

\* lines 92-100: the directory yielded by os.walk; on `dirs[:] = []; continue`
\* the generator is resumed with nothing to push
SyncBody ==
    /\ pc = "sync_body"
    /\ visited' = Append(visited, root)
    /\ IF TooDeep(root, sync.max_depth)
       THEN /\ sync' = [sync EXCEPT !.dirs = << >>]
            /\ pc' = "sync_walk"
       ELSE /\ pc' = "sync_files"
            /\ sync' = sync
    /\ UNCHANGED <<fs, dry, stack, root, files, op, log, calls, ops, start, runs,
                   prev, ext, vanished>>

\* Path.is_file / Path.is_dir, by the name of the path
IsFilePath(p) == Exists(p) /\ IsFileName(Name(p))

IsDirPath(p) == Exists(p) /\ ~IsFileName(Name(p))

\* shutil.copy2(src, dst), or an attempt of it
CopyCall(src, dst, ok) ==
    [func |-> "copy2", src |-> src, path |-> dst, ok |-> ok,
     present |-> Parent(dst) \in fs]

\* dst.mkdir(parents=True, exist_ok=True): dst and its missing ancestors
MadeDirs(dst) == {SubSeq(dst, 1, k) : k \in 1..Len(dst)}

\* as AfterCopyFailure with the exception raised again
AfterCopyFailureRaise == "aborted"

\* lines 85-86: `except Exception`: log the error, return, next file
AfterCopyFailure == "sync_files"

\* lines 101-103 and safe_copy with no exception: copy2 writes dst, which needs
\* the directory of dst to exist; a directory would be made with its ancestors
SyncCopyOk ==
    /\ pc = "sync_files"
    /\ files # << >>
    /\ LET src == Append(root, Head(files))
           dst == Append(DestRoot(root), Head(files))
       IN  IF IsFilePath(src)
           THEN /\ Parent(dst) \in fs
                /\ log' = Append(log, Event("info", "Copying", dst))
                /\ calls' = Append(calls, CopyCall(src, dst, TRUE))
                /\ fs' = fs \cup {dst}
           ELSE /\ fs' = IF IsDirPath(src) THEN fs \cup MadeDirs(dst) ELSE fs
                /\ UNCHANGED <<log, calls>>
    /\ files' = Tail(files)
    /\ sync' = [sync EXCEPT !.count = @ + 1]
    /\ UNCHANGED <<pc, dry, stack, root, op, ops, visited, start, runs, prev, ext,
                   vanished>>

\* lines 101-103 and safe_copy with copy2 raising: dst may have been created
\* when its directory exists; the exception is logged and dropped
SyncCopyFail ==
    /\ pc = "sync_files"
    /\ files # << >>
    /\ IsFilePath(Append(root, Head(files)))
    /\ LET src == Append(root, Head(files))
           dst == Append(DestRoot(root), Head(files))
       IN  /\ log' = log \o <<Event("info", "Copying", dst),
                               Event("error", "Failed", src)>>
           /\ calls' = Append(calls, CopyCall(src, dst, FALSE))
           /\ \/ fs' = fs
              \/ Parent(dst) \in fs /\ dst \notin fs /\ fs' = fs \cup {dst}
    /\ files' = Tail(files)
    /\ sync' = [sync EXCEPT !.count = @ + 1]
    /\ pc' = AfterCopyFailure
    /\ UNCHANGED <<dry, stack, root, op, ops, visited, start, runs, prev, ext,
                   vanished>>

\* lines 105-108: the file loop is over; os.walk is resumed and pushes the
\* directories left in dirs
SyncFilesDone ==
    /\ pc = "sync_files"
    /\ files = << >>
    /\ stack' = stack \o Pushed(root, sync.dirs)
    /\ pc' = "sync_walk"
    /\ UNCHANGED <<fs, dry, root, files, op, log, calls, ops, visited, start, runs,
                   prev, ext, vanished, sync>>

NextSync ==
    \/ \E md \in 0..MaxDepth, dr \in BOOLEAN : SyncLevel(md, dr)
    \/ SyncEnd
    \/ SyncWalkSkip
    \/ SyncWalkYield
    \/ SyncBody
    \/ SyncCopyOk
    \/ SyncCopyFail
    \/ SyncFilesDone

\* sync_level alone on the two trees
SpecSync == Init /\ [][NextSync]_vars

\* ----------------------------------------------------------------------
\* Properties
\* ----------------------------------------------------------------------
Running == pc \in {"walk", "body", "files", "retry"}

\* the paths of a filesystem that lie in the backup
BackupOf(f) == {p \in f : IsUnder(p, BackupDir)}

\* the path of the source at the same place as the path p of the backup
Counterpart(p) == Join(SourceDir, RelativeTo(p, BackupDir))

\* the paths of the backup with no path of the source at the same place
Orphans == {p \in BackupOf(fs) : Counterpart(p) \notin fs}

SomeExhausted == \E i \in 1..Len(ops) : IsExhausted(ops[i])

SomeFailure == \E i \in 1..Len(calls) : ~calls[i].ok

\* C1: during and after clear_deleted(dry=False), whatever removals fail, every
\* path of the backup that was there when the call started and whose place in
\* the source is taken is still in the backup.
C1_MirroredPathsKept ==
    (Running /\ ~dry) =>
        \A p \in start \ fs : ~(IsUnder(p, BackupDir) /\ Counterpart(p) \in start)

\* a real run has ended, it removed something, one of its removals failed, and
\* a path below the root that has its place in the source is still there
C1_Witness ==
    /\ AtEnd /\ ~dry
    /\ SomeFailure
    /\ fs # start
    /\ \E p \in BackupOf(fs) : p # BackupDir /\ Counterpart(p) \in fs

\* C2: a clear_deleted(dry=False) call in which no retry was exhausted ends
\* with no orphan in the backup, and the clear_deleted(dry=False) call that
\* follows it logs no decision and calls no removal.
C2_OneRunClearsAll ==
    /\ (AtEnd /\ ~dry /\ ~SomeExhausted) => Orphans = {}
    /\ (Running /\ ~dry /\ runs >= 2 /\ ~prev.dry /\ ~prev.exhausted) =>
           (log = << >> /\ calls = << >> /\ ops = << >> /\ fs = start)

\* the second of two real runs has ended; the first had a failed attempt but
\* no exhausted retry (so it removed something), and it left paths to walk
C2_Witness ==
    /\ AtEnd /\ ~dry /\ runs = 2
    /\ ~prev.dry /\ ~prev.exhausted /\ prev.failures
    /\ \E p \in BackupOf(fs) : p # BackupDir

\* C3: clear_deleted(dry=True) leaves the backup as it was when the call
\* started, and enters neither _remove_directory nor _remove_file.
C3_DryRunChangesNothing ==
    (Running /\ dry) =>
        /\ BackupOf(fs) = BackupOf(start)
        /\ pc # "retry"
        /\ calls = << >>
        /\ ops = << >>

\* a dry run has ended that logged a directory and a file to delete
C3_Witness ==
    /\ AtEnd /\ dry
    /\ \E i, j \in 1..Len(log) :
          /\ log[i].what = "Deleting dir tree"
          /\ log[j].what = "Deleting file"

StrictlyUnder(p, d) == p # d /\ IsPrefix(d, p)

\* C4: once a directory is logged as 'Deleting dir tree', nothing strictly
\* below it is visited, logged or passed to a removal, in any mode.
C4_NoDescentBelowDeleted ==
    \A i \in 1..Len(log) :
        log[i].what = "Deleting dir tree" =>
            /\ \A j \in 1..Len(visited) : ~StrictlyUnder(visited[j], log[i].path)
            /\ \A j \in 1..Len(log) : ~StrictlyUnder(log[j].path, log[i].path)
            /\ \A j \in 1..Len(calls) : ~StrictlyUnder(calls[j].path, log[i].path)

NCalls(o) == o.callTo - o.callFrom + 1

\* the events of the given level logged by the wrapper activation o
Logged(o, level) == {i \in (o.decision + 1)..o.logTo : log[i].level = level}

C7_FailThenSucceed ==
    \A i \in 1..Len(ops) :
        (~calls[ops[i].callFrom].ok /\ ops[i].result = "ok") =>
            /\ NCalls(ops[i]) = 2
            /\ calls[ops[i].callTo].ok
            /\ Cardinality(Logged(ops[i], "warning")) = 1
            /\ Cardinality(Logged(ops[i], "error")) = 0
            /\ ~Exists(ops[i].path)

\* a _remove_directory and a _remove_file have each failed once, then succeeded
C7_Witness ==
    \E i, j \in 1..Len(ops) :
        /\ ops[i].func = "_remove_directory" /\ ops[j].func = "_remove_file"
        /\ ~calls[ops[i].callFrom].ok /\ ops[i].result = "ok"
        /\ ~calls[ops[j].callFrom].ok /\ ops[j].result = "ok"

\* C8: a wrapper activation calls the underlying removal at most
\* max_retries + 1 times, never again after a call that succeeded, and counts
\* its attempts from zero whatever the activations before it did.
C8_BoundedFreshAttempts ==
    /\ pc = "retry" =>
          /\ op.attempt = Len(calls) - op.callFrom + 1
          /\ op.attempt <= max_retries
          /\ \A k \in op.callFrom..Len(calls) : ~calls[k].ok
    /\ \A i \in 1..Len(ops) :
          /\ NCalls(ops[i]) >= 1
          /\ NCalls(ops[i]) <= max_retries + 1
          /\ \A k \in ops[i].callFrom..(ops[i].callTo - 1) : ~calls[k].ok
          /\ \A k \in ops[i].callFrom..ops[i].callTo :
                calls[k].func = ops[i].func /\ calls[k].path = ops[i].path
          /\ IsExhausted(ops[i]) => NCalls(ops[i]) = max_retries + 1
          /\ i < Len(ops) => ops[i + 1].callFrom = ops[i].callTo + 1

\* a wrapper activation is at its first attempt right after an activation that
\* was given up
C8_Witness ==
    /\ pc = "retry"
    /\ op.callFrom = Len(calls) + 1
    /\ ops # << >>
    /\ IsExhausted(ops[Len(ops)])

\* C9: a removal called on a path that does not exist returns at once: one
\* call, no warning, no error.
C9_AbsentPathIsNoOp ==
    \A i \in 1..Len(ops) :
        ~calls[ops[i].callFrom].present =>
            /\ NCalls(ops[i]) = 1
            /\ Logged(ops[i], "warning") = {}
            /\ Logged(ops[i], "error") = {}

\* C10: a path another process removed between its listing and its
\* classification gets no 'Deleting' log entry and no removal call.
C10_VanishedNodeSkipped ==
    /\ pc # "aborted"
    /\ \A p \in vanished :
          /\ \A i \in 1..Len(log) : log[i].path # p
          /\ \A i \in 1..Len(calls) : calls[i].path # p
          /\ pc = "retry" => op.path # p

\* C11: while clear_deleted runs, in either mode, a root directory that
\* existed when the call started still exists.
C11_RootsNeverRemoved ==
    Running =>
        /\ BackupDir \in start => BackupDir \in fs
        /\ SourceDir \in start => SourceDir \in fs

\* C13: when the backup root does not exist at the start of clear_deleted, the
\* call visits nothing, logs nothing, calls no removal and changes nothing.
C13_MissingBackupRoot ==
    (Running /\ BackupDir \notin start) =>
        /\ pc = "walk"
        /\ visited = << >>
        /\ log = << >>
        /\ calls = << >>
        /\ ops = << >>
        /\ fs = start

\* a real run on a missing backup root, beside a source that has content, has
\* reached the end of its traversal
C13_Witness ==
    /\ AtEnd /\ ~dry
    /\ BackupDir \notin start
    /\ \E p \in fs : IsUnder(p, SourceDir) /\ p # SourceDir

\* C14: the value a removal returns after its retries were exhausted differs
\* from the value a removal returns after it succeeded.
C14_OutcomeDistinguishable ==
    \A i, j \in 1..Len(ops) :
        (IsExhausted(ops[i]) /\ ops[j].result = "ok") =>
            ops[i].returned # ops[j].returned

\* C18: a file directly inside a directory logged as 'Deleting dir tree' gets
\* no 'Deleting file' entry and no _remove_file call, in either mode and
\* whether or not the removal of the directory succeeded.
C18_NoFileDecisionInDeletedDir ==
    \A i \in 1..Len(log) :
        log[i].what = "Deleting dir tree" =>
            /\ \A j \in 1..Len(log) :
                  log[j].what = "Deleting file" => Parent(log[j].path) # log[i].path
            /\ \A j \in 1..Len(calls) :
                  calls[j].func = "_remove_file" => Parent(calls[j].path) # log[i].path
            /\ (pc = "retry" /\ op.func = "_remove_file") => Parent(op.path) # log[i].path

\* a real run has ended in which the removal of a directory was given up, a
\* file directly inside it is still there, and a file elsewhere was removed
C18_Witness ==
    /\ AtEnd /\ ~dry
    /\ \E i, j \in 1..Len(ops) :
          /\ ops[i].func = "_remove_directory" /\ IsExhausted(ops[i])
          /\ Exists(Append(ops[i].path, FileF))
          /\ ops[j].func = "_remove_file" /\ ops[j].result = "ok"

\* C20: a clear_deleted(dry=False) call in which no removal fails, made after a
\* clear_deleted(dry=False) call that gave up some removals, ends with no
\* orphan in the backup and with every path that has its place in the source
\* still there.
C20_NextRunRecovers ==
    (AtEnd /\ ~dry /\ runs >= 2 /\ ~prev.dry /\ prev.exhausted /\ ~SomeFailure) =>
        /\ Orphans = {}
        /\ \A p \in start \ fs : ~(IsUnder(p, BackupDir) /\ Counterpart(p) \in start)

\* such a second run has ended, it removed what the first had given up, and a
\* path below the root that has its place in the source is still there
C20_Witness ==
    /\ AtEnd /\ ~dry /\ runs = 2
    /\ ~prev.dry /\ prev.exhausted /\ ~SomeFailure
    /\ \E i \in 1..Len(ops) : ops[i].result = "ok"
    /\ \E p \in BackupOf(fs) : p # BackupDir /\ Counterpart(p) \in fs

\* the most calls of the underlying removal in one wrapper activation
MaxAttempts == max_retries + 1

\* the steps one file of the file loop can take, and one directory at most
FileCost == MaxAttempts + 1

DirCost == Cardinality(FilePaths) * FileCost + MaxAttempts + 3

\* the directories the walk may still yield: those on its stack and below them
RECURSIVE WalkRank(_)
WalkRank(st) ==
    IF st = << >> THEN 0
    ELSE 1 + Cardinality({q \in fs : StrictlyUnder(q, Head(st)) /\ ~IsFileName(Name(q))})
           + WalkRank(Tail(st))

\* the steps left for the directory in hand
LocalRank ==
    CASE pc = "body" -> Len(files) * FileCost + MaxAttempts + 2
      [] pc = "files" -> Len(files) * FileCost + 1
      [] pc = "retry" ->
            (MaxAttempts - op.attempt)
            + (IF op.func = "_remove_file" THEN Len(files) * FileCost + 1 ELSE 0)
      [] OTHER -> 0

\* a bound on the steps the running call has left
Rank == WalkRank(stack) * DirCost + LocalRank

NDecisions == Cardinality({i \in 1..Len(log) : log[i].level = "info"})

C12_Step ==
    /\ pc' # "aborted"
    /\ (pc # "idle" /\ pc' = "idle") => AtEnd
    /\ (pc # "idle" /\ pc' # "idle") => Rank' < Rank
    /\ Len(calls') <= MaxAttempts * NDecisions'

C19_DryRunReportsRealRun ==
    (AtEnd /\ ~dry /\ runs >= 2 /\ prev.dry /\ ~SomeFailure) =>
        /\ {log[i].path : i \in 1..Len(log)} = prev.decisions
        /\ {ops[i].path : i \in 1..Len(ops)} = prev.decisions

SyncRunning == pc \in {"sync_walk", "sync_body", "sync_files"}

\* the path of the backup at the same place as the path p of the source
DestOf(p) == Join(BackupDir, RelativeTo(p, SourceDir))

\* a copy that failed although the directory of its destination existed
CopyFault(c) == ~c.ok /\ c.present

\* C15: after sync_level with max_depth = 0 and no copy fault, every directory
\* and every file under the source root exists at the same relative path under
\* the backup root, missing parents and empty directories included.
C15_SourceReplicated ==
    ( /\ SyncAtEnd
      /\ sync.max_depth = 0
      /\ SourceDir \in start /\ BackupDir \in start
      /\ \A i \in 1..Len(calls) : ~CopyFault(calls[i]) ) =>
        \A p \in fs : IsUnder(p, SourceDir) => DestOf(p) \in fs

\* the files sync_level copies: those of the directories within max_depth
WouldCopy ==
    {p \in fs : /\ StrictlyUnder(p, SourceDir)
                /\ IsFileName(Name(p))
                /\ ~TooDeep(Parent(p), sync.max_depth)}

\* C16: a failing copy is caught and logged and does not stop sync_level:
\* every file it would copy is attempted, and every copy that succeeded is in
\* the backup at the end.
C16_CopyFailureIsolated ==
    /\ pc # "aborted"
    /\ SyncRunning =>
          \A i \in 1..Len(calls) :
              ~calls[i].ok =>
                  \E k \in 1..Len(log) :
                      log[k].level = "error" /\ log[k].path = calls[i].src
    /\ SyncAtEnd =>
          /\ \A p \in WouldCopy :
                 \E i \in 1..Len(calls) : calls[i].path = DestOf(p)
          /\ \A i \in 1..Len(calls) : calls[i].ok => calls[i].path \in fs

C16_Witness ==
    /\ SyncAtEnd
    /\ \E i, j \in 1..Len(calls) :
           /\ i < j
           /\ CopyFault(calls[i])
           /\ calls[j].ok /\ calls[j].path \in fs \ start

\* C17: sync_level called with dry_run = True creates no directory and copies
\* no file; the filesystem stays as it was before the call.
C17_SyncDryRunChangesNothing ==
    (SyncRunning /\ sync.dry_run) => fs = start

\* C21: clear_deleted only reads the source: in every mode and whatever fails,
\* the paths under the source root stay as they were when the call started,
\* and every path handed to _remove_directory or _remove_file is under the
\* backup root.
C21_SourceOnlyRead ==
    Running =>
        /\ \A p \in (fs \ start) \cup (start \ fs) : ~IsUnder(p, SourceDir)
        /\ \A i \in 1..Len(calls) : IsUnder(calls[i].path, BackupDir)
        /\ \A i \in 1..Len(ops) : IsUnder(ops[i].path, BackupDir)
        /\ pc = "retry" => IsUnder(op.path, BackupDir)

\* a real run has ended that removed a directory and a file from the backup
\* and had a removal fail, with files and directories in the source
C21_Witness ==
    /\ AtEnd /\ ~dry
    /\ SomeFailure
    /\ \E i, j \in 1..Len(ops) :
           /\ ops[i].result = "ok" /\ ops[i].func = "_remove_directory"
           /\ ops[j].result = "ok" /\ ops[j].func = "_remove_file"
    /\ \E p, q \in fs :
           /\ StrictlyUnder(p, SourceDir) /\ IsFileName(Name(p))
           /\ StrictlyUnder(q, SourceDir) /\ ~IsFileName(Name(q))

====
